---- MODULE Spec2Model ----
\* A model of cview-widget-views (src/index.js): the BaseWidget builder, its
\* insertion-ordered attribute Map, its children list, and the recursive
\* `definition` getter that serializes a widget tree.
EXTENDS Integers, Sequences, FiniteSets, TLC

\* ---------------------------------------------------------------- values

\* JavaScript values are modelled as records so that any two of them can be
\* compared: a primitive p is [prim |-> p], an object is the record of its
\* fields, a reference to a widget is [node |-> id].
Prim(p) == [prim |-> p]

Undefined == Prim("undefined")

WidgetRef(n) == [node |-> n]

\* The widgets the caller has constructed.
Nodes == {"p1", "p2", "c"}

\* Longest children array the caller passes.
MaxViews == 2

\* Depth of the call stack, in frames of _getDefinition. A path through the
\* children lists that is longer than the number of widgets repeats a widget,
\* so the recursion along it never ends and overflows any finite stack.
StackLimit == 3

\* What the runtime throws when the call stack is exhausted.
RangeError == [error |-> "RangeError: Maximum call stack size exceeded"]

\* Attribute names and values used by the callers of setProps.
Names == {"opacity", "blur"}

Values == {Prim("0.5"), Prim("3")}

\* An already serialized definition, passed as a child (README: `title`).
RawViews == {[type |-> "text", props |-> [text |-> Prim("hi")]]}

VARIABLES
  type,      \* this.type, set by the subclass constructor
  ordered,   \* this.ordered
  _props,    \* this._props: a Map, as the sequence of its <<key, value>> entries
  _views,    \* this._views
  ret,       \* the most recent call: [op, self, name, val], val the value returned
  held,      \* a definition the caller keeps in a variable of its own
  log        \* what the caller did to each widget, kept by the caller

vars == <<type, ordered, _props, _views, ret, held, log>>

\* ------------------------------------------------------------ constructors

\* new BaseWidget(ordered): no type field is assigned.
NewBaseWidget(o) == [type |-> "undefined", ordered |-> o]

\* new Text(), new Zstack(), new Vstack(): super() leaves ordered at its default.
NewText == [type |-> "text", ordered |-> FALSE]

NewZstack == [type |-> "zstack", ordered |-> FALSE]

NewVstack == [type |-> "vstack", ordered |-> FALSE]

\* The state after every widget of `made` (widget -> constructed object) exists.
Constructed(made) ==
  /\ type = [n \in Nodes |-> made[n].type]
  /\ ordered = [n \in Nodes |-> made[n].ordered]
  /\ _props = [n \in Nodes |-> <<>>]
  /\ _views = [n \in Nodes |-> <<>>]
  /\ ret = [op |-> "new", self |-> "c", name |-> "", val |-> WidgetRef("c")]
  /\ held = Undefined
  /\ log = [n \in Nodes |->
              [kind |-> made[n].type, orderedMode |-> made[n].ordered,
               first |-> <<>>, last |-> <<>>, kids |-> <<>>,
               had |-> FALSE, touched |-> FALSE]]

\* n instanceof Text, in place of BaseWidget.
IsWidgetText(e) == DOMAIN e = {"node"} /\ type[e.node] = "text"

\* n instanceof BaseWidget
IsWidget(e) == DOMAIN e = {"node"}

\* ------------------------------------------------------------ the Map

MapHas(m, k) == \E i \in DOMAIN m : m[i][1] = k

\* A store that keeps the first value written under a key.
MapSetKeepFirst(m, k, v) ==
  IF MapHas(m, k) THEN m ELSE Append(m, <<k, v>>)

\* A store that moves a key written again to the end.
MapSetMoveToEnd(m, k, v) ==
  Append(SelectSeq(m, LAMBDA e : e[1] # k), <<k, v>>)

\* Map.prototype.set: an existing key keeps its place and takes the new value,
\* a new key is appended.
MapSet(m, k, v) ==
  IF MapHas(m, k)
  THEN [i \in DOMAIN m |-> IF m[i][1] = k THEN <<k, v>> ELSE m[i]]
  ELSE Append(m, <<k, v>>)

\* Object.fromEntries: one property per key, a later entry overwriting an
\* earlier one of the same key.
FromEntries(es) ==
  [k \in {es[i][1] : i \in DOMAIN es} |->
     es[CHOOSE i \in DOMAIN es :
          /\ es[i][1] = k
          /\ \A j \in DOMAIN es : es[j][1] = k => j <= i][2]]

\* ------------------------------------------------------------ getters

props(n) == FromEntries(_props[n])

modifiers(n) == [i \in DOMAIN _props[n] |-> FromEntries(<<_props[n][i]>>)]

views(n) == _views[n]

\* An encoding that leaves the attribute field out when nothing was set.
EncodeAttributesOmitEmpty(view) ==
  IF _props[view] = <<>> THEN [type |-> type[view]]
  ELSE IF ordered[view]
  THEN [type |-> type[view], modifiers |-> modifiers(view)]
  ELSE [type |-> type[view], props |-> props(view)]

\* definition.type and the one attribute field, chosen by view.ordered.
EncodeAttributes(view) ==
  IF ordered[view]
  THEN [type |-> type[view], modifiers |-> modifiers(view)]
  ELSE [type |-> type[view], props |-> props(view)]

\* views attached whatever its length.
AttachViewsAlways(def, mapped) == def @@ [views |-> mapped]

\* definition.views is set only if view.views has a length.
AttachViews(def, mapped) ==
  IF Len(mapped) > 0 THEN def @@ [views |-> mapped] ELSE def

\* A serializer that does not descend: a child widget is given its type and
\* attributes, not its views.
_getDefinitionShallow(view, depth) ==
  AttachViews(EncodeAttributes(view),
              [i \in DOMAIN views(view) |->
                 IF IsWidget(views(view)[i])
                 THEN EncodeAttributes(views(view)[i].node)
                 ELSE views(view)[i]])

RECURSIVE _getDefinition(_, _)
_getDefinition(view, depth) ==
  IF depth > StackLimit THEN RangeError
  ELSE
    LET mapped == [i \in DOMAIN views(view) |->
                     IF IsWidget(views(view)[i])
                     THEN _getDefinition(views(view)[i].node, depth + 1)
                     ELSE views(view)[i]]
    IN IF \E i \in DOMAIN mapped : mapped[i] = RangeError
       THEN RangeError
       ELSE AttachViews(EncodeAttributes(view), mapped)

\* ------------------------------------------------------------ the caller's log

\* log[n] holds, for widget n: the kind and the orderedMode it was constructed
\* with; the attribute names in the order in which they were first set (first)
\* and the value each was last set to (last); the array last assigned as its
\* children (kids); whether a non-empty array was ever assigned (had); whether
\* an attribute of one of its children was set since kids was assigned (touched).

\* The caller notes the attribute it has just set on n.
LogAttribute(n, name, value) ==
  log' = [m \in Nodes |->
    LET child == \E i \in DOMAIN log[m].kids : log[m].kids[i] = [node |-> n]
        mine == IF m = n
                THEN [log[m] EXCEPT
                        !.first = IF \E i \in DOMAIN @ : @[i] = name
                                  THEN @ ELSE Append(@, name),
                        !.last = (name :> value) @@ @]
                ELSE log[m]
    IN IF child THEN [mine EXCEPT !.touched = TRUE] ELSE mine]

\* The caller notes the array it has just made the children of n.
LogChildren(n, arr) ==
  log' = [log EXCEPT ![n].kids = arr,
                     ![n].had = @ \/ arr # <<>>,
                     ![n].touched = FALSE]

\* ------------------------------------------------------------ operations

\* A setter that starts a new Map with each call.
_setPropsFresh(n, name, value) ==
  /\ _props' = [_props EXCEPT ![n] = <<(<<name, value>>)>>]
  /\ UNCHANGED <<type, ordered, _views>>

\* A setter that writes the widget's own field of that name when it has one
\* (this[name] = value).
_setPropsField(n, name, value) ==
  IF name = "type"
  THEN /\ type' = [type EXCEPT ![n] = value.prim]
       /\ UNCHANGED <<ordered, _props, _views>>
  ELSE IF name = "ordered"
  THEN /\ ordered' = [ordered EXCEPT ![n] = TRUE]
       /\ UNCHANGED <<type, _props, _views>>
  ELSE /\ _props' = [_props EXCEPT ![n] = MapSet(@, name, value)]
       /\ UNCHANGED <<type, ordered, _views>>

\* _setProps(name, value), on widget n: touches this._props alone.
_setProps(n, name, value) ==
  /\ _props' = [_props EXCEPT ![n] = MapSet(@, name, value)]
  /\ UNCHANGED <<type, ordered, _views>>

\* A setter that stores the children's definitions, not the children.
set_viewsCopy(n, arr) ==
  /\ _views' = [_views EXCEPT ![n] =
                  [i \in DOMAIN arr |->
                     IF IsWidget(arr[i]) THEN _getDefinition(arr[i].node, 1)
                     ELSE arr[i]]]
  /\ UNCHANGED <<type, ordered, _props>>

\* set views(arr), on widget n.
set_views(n, arr) ==
  /\ _views' = [_views EXCEPT ![n] = arr]
  /\ UNCHANGED <<type, ordered, _props>>

\* `return this` at the end of a method called on n.
ReturnThis(op, n, name) ==
  ret' = [op |-> op, self |-> n, name |-> name, val |-> WidgetRef(n)]

\* A method called on n that ends without a return statement.
ReturnNothing(op, n, name) ==
  ret' = [op |-> op, self |-> n, name |-> name, val |-> Undefined]

setProps(n, name, value) ==
  /\ _setProps(n, name, value)
  /\ ReturnThis("setProps", n, name)
  /\ LogAttribute(n, name, value)
  /\ UNCHANGED held

opacity(n, num) ==
  /\ _setProps(n, "opacity", num)
  /\ ReturnThis("opacity", n, "opacity")
  /\ LogAttribute(n, "opacity", num)
  /\ UNCHANGED held

\* frame({width, height, alignment, ...} = {}): the nine named fields of the
\* argument, undefined where the argument has none, packed into one object.
FrameFields ==
  {"width", "height", "alignment", "minWidth", "idealWidth", "maxWidth",
   "minHeight", "idealHeight", "maxHeight"}

FrameValue(arg) ==
  [f \in FrameFields |-> IF f \in DOMAIN arg THEN arg[f] ELSE Undefined]

frame(n, arg) ==
  /\ _setProps(n, "frame", FrameValue(arg))
  /\ ReturnThis("frame", n, "frame")
  /\ LogAttribute(n, "frame", FrameValue(arg))
  /\ UNCHANGED held

layoutPriority(n, num) ==
  /\ _setProps(n, "layoutPriority", num)
  /\ ReturnNothing("layoutPriority", n, "layoutPriority")
  /\ LogAttribute(n, "layoutPriority", num)
  /\ UNCHANGED held

\* border({color, width}): the two named fields of the argument.
BorderValue(arg) ==
  [f \in {"color", "width"} |-> IF f \in DOMAIN arg THEN arg[f] ELSE Undefined]

border(n, arg) ==
  /\ _setProps(n, "border", BorderValue(arg))
  /\ ReturnThis("border", n, "border")
  /\ LogAttribute(n, "border", BorderValue(arg))
  /\ UNCHANGED held

\* !antialiased
Falsy(v) == v \in {Undefined, Prim("false")}

\* clipped(bool = true, antialiased)
ClippedValue(bool, antialiased) ==
  IF Falsy(antialiased)
  THEN (IF bool = Undefined THEN Prim("true") ELSE bool)
  ELSE [antialiased |-> Prim("true")]

clipped(n, bool, antialiased) ==
  /\ _setProps(n, "clipped", ClippedValue(bool, antialiased))
  /\ ReturnThis("clipped", n, "clipped")
  /\ LogAttribute(n, "clipped", ClippedValue(bool, antialiased))
  /\ UNCHANGED held

setViews(n, arr) ==
  /\ set_views(n, arr)
  /\ ReturnThis("setViews", n, "")
  /\ LogChildren(n, arr)
  /\ UNCHANGED held

definition(n) ==
  /\ ret' = [op |-> "definition", self |-> n, name |-> "",
             val |-> _getDefinition(n, 1)]
  /\ UNCHANGED <<type, ordered, _props, _views, held, log>>

\* const title = widget.definition: the caller keeps what the getter returned.
hold ==
  /\ ret.op = "definition"
  /\ ret.val # RangeError
  /\ held' = ret.val
  /\ UNCHANGED <<type, ordered, _props, _views, ret, log>>

\* ------------------------------------------------------------ inputs

RECURSIVE SeqsUpTo(_, _)
SeqsUpTo(S, k) ==
  IF k = 0 THEN {<<>>}
  ELSE LET shorter == SeqsUpTo(S, k - 1)
       IN shorter \cup {Append(s, e) : s \in shorter, e \in S}

\* The arrays a caller passes to setViews: widgets of W and the raw values R.
Arrays(W, R) == SeqsUpTo({WidgetRef(m) : m \in W} \cup R, MaxViews)

\* ------------------------------------------------------------ Spec
\* A parent p1 and a child c: every attribute, every children array.

Acting == {"p1", "c"}

\* The widgets a caller puts into the children of n: p1 is the parent (of c and,
\* by mistake, of itself) and holds raw values too, c is a leaf.
KidsOf(n) == IF n = "p1" THEN {"p1", "c"} ELSE {}

RawOf(n) == IF n = "p1" THEN RawViews ELSE {}

Init ==
  \E o1, o2 \in BOOLEAN :
    Constructed([n \in Nodes |->
      IF n = "p1" THEN (IF o1 THEN NewBaseWidget(TRUE) ELSE NewZstack)
      ELSE IF n = "c" THEN (IF o2 THEN NewBaseWidget(TRUE) ELSE NewText)
      ELSE NewVstack])

Next ==
  \/ \E n \in Acting, name \in Names, value \in Values : setProps(n, name, value)
  \/ \E n \in Acting : \E arr \in Arrays(KidsOf(n), RawOf(n)) : setViews(n, arr)
  \/ \E n \in Acting : definition(n)

Spec == Init /\ [][Next]_vars

\* ------------------------------------------------------------ SpecShared
\* Two parents p1 and p2 and a child c of both; p2 may also be a child of p1.
\* The caller sets the opacity of c and keeps definitions it has read.

SharedKidsOf(n) == IF n = "p1" THEN {"p2", "c"} ELSE IF n = "p2" THEN {"c"} ELSE {}

InitShared ==
  \E o \in BOOLEAN :
    Constructed([n \in Nodes |->
      IF n = "p1" THEN NewZstack
      ELSE IF n = "p2" THEN NewVstack
      ELSE IF o THEN NewBaseWidget(TRUE) ELSE NewText])

NextShared ==
  \/ \E num \in Values : opacity("c", num)
  \/ \E n \in {"p1", "p2"} :
       \E arr \in Arrays(SharedKidsOf(n), {}) : setViews(n, arr)
  \/ \E n \in Nodes : definition(n)
  \/ hold

SpecShared == InitShared /\ [][NextShared]_vars

\* ------------------------------------------------------------ SpecSetters
\* One widget c and the setters of the catalog that do more than pass their
\* argument on, with setProps under the names of the widget's own fields.

FrameArgs == {[width |-> Prim("100"), height |-> Prim("50")]}

BorderArgs == {[color |-> Prim("red"), width |-> Prim("1"), style |-> Prim("dashed")]}

InitSetters ==
  \E o \in BOOLEAN :
    Constructed([n \in Nodes |->
      IF n = "p1" THEN NewZstack
      ELSE IF n = "p2" THEN NewVstack
      ELSE IF o THEN NewBaseWidget(TRUE) ELSE NewText])

NextSetters ==
  \/ setProps("c", "type", Prim("zstack"))
  \/ setProps("c", "ordered", Prim("true"))
  \/ \E arg \in FrameArgs : frame("c", arg)
  \/ \E arg \in BorderArgs : border("c", arg)
  \/ \E bool \in {Undefined, Prim("false")}, antialiased \in {Undefined, Prim("true")} :
       clipped("c", bool, antialiased)
  \/ layoutPriority("c", Prim("1"))
  \/ \E arr \in Arrays({}, RawViews) : setViews("c", arr)
  \/ definition("c")

SpecSetters == InitSetters /\ [][NextSetters]_vars

\* ------------------------------------------------------------ what the caller expects
\* The definition of a widget as section 4.1 of the specification describes it,
\* computed from the caller's log alone.

Range(arr) == {arr[i] : i \in DOMAIN arr}

\* The entry e of a children array is one of the caller's widgets.
IsNode(e) == \E n \in Nodes : e = [node |-> n]

WidgetsIn(arr) == {e.node : e \in {x \in Range(arr) : IsNode(x)}}

RECURSIVE Below(_, _)
Below(S, k) ==
  IF k = 0 THEN S
  ELSE Below(S \cup UNION {WidgetsIn(log[m].kids) : m \in S}, k - 1)

\* The widgets below n in the children arrays the caller assigned.
Descendants(n) == Below(WidgetsIn(log[n].kids), Cardinality(Nodes))

\* n, or a widget below it, is its own descendant.
InCycle(n) == \E m \in Descendants(n) \cup {n} : m \in Descendants(m)

ExpectedProps(n) == log[n].last

ExpectedModifiers(n) ==
  [i \in DOMAIN log[n].first |-> (log[n].first[i] :> log[n].last[log[n].first[i]])]

\* The definition of n by the algorithm of the specification; where n is in a
\* cycle the algorithm does not end and there is none.
RECURSIVE Expected(_)
Expected(n) ==
  IF InCycle(n) THEN RangeError ELSE
  LET attrs == IF log[n].orderedMode
               THEN [type |-> log[n].kind, modifiers |-> ExpectedModifiers(n)]
               ELSE [type |-> log[n].kind, props |-> ExpectedProps(n)]
      kids == log[n].kids
  IN IF kids = <<>> THEN attrs
     ELSE attrs @@ [views |-> [i \in DOMAIN kids |->
                      IF IsNode(kids[i]) THEN Expected(kids[i].node) ELSE kids[i]]]

\* The getter has just returned a definition of n.
Returned(n) == ret.op = "definition" /\ ret.self = n /\ ret.val # RangeError

\* ------------------------------------------------------------ claims

\* The record d, serialized from widget n, and every record below it that was
\* serialized from a widget, has exactly one of props and modifiers.
RECURSIVE OneEncoding(_, _)
OneEncoding(d, n) ==
  /\ DOMAIN d \cap {"props", "modifiers"} =
       (IF log[n].orderedMode THEN {"modifiers"} ELSE {"props"})
  /\ log[n].first = <<>> =>
       IF log[n].orderedMode THEN d.modifiers = <<>> ELSE DOMAIN d.props = {}
  /\ \A i \in DOMAIN log[n].kids :
       IsNode(log[n].kids[i]) =>
         /\ "views" \in DOMAIN d
         /\ i \in DOMAIN d.views
         /\ OneEncoding(d.views[i], log[n].kids[i].node)

\* C1: every definition record the getter produces, at any depth of the tree,
\* carries exactly one of props and modifiers: modifiers when the widget was
\* constructed ordered, props otherwise; with no attribute set the field is
\* the empty list or the empty mapping.
C1_ExactlyOneEncoding ==
  \A n \in Nodes : Returned(n) => OneEncoding(ret.val, n)

\* An ordered parent without attributes over an unordered child without any.
C1_Witness ==
  /\ Returned("p1")
  /\ log["p1"].orderedMode /\ ~log["c"].orderedMode
  /\ ret.val = [type |-> "undefined", modifiers |-> <<>>,
                views |-> <<[type |-> "text", props |-> <<>>]>>]

\* C3: the props of an unordered widget's definition has exactly the names
\* ever set as its keys, each mapped to the value of the last call that set it.
C3_PropsLastWriteWins ==
  \A n \in Nodes :
    Returned(n) /\ ~log[n].orderedMode =>
      /\ "props" \in DOMAIN ret.val
      /\ DOMAIN ret.val.props = Range(log[n].first)
      /\ \A k \in DOMAIN ret.val.props : ret.val.props[k] = log[n].last[k]

\* opacity was set to 0.5 and blur to 3 and then opacity was set again, to 3.
C3_Witness ==
  /\ Returned("c") /\ ~log["c"].orderedMode
  /\ _props["c"] = <<(<<"opacity", Prim("3")>>), (<<"blur", Prim("3")>>)>>
  /\ ret.val.props = [opacity |-> Prim("3"), blur |-> Prim("3")]

\* C4: the modifiers of an ordered widget's definition is a sequence of
\* single-key records, one per name, in the order in which the names were
\* first set; setting a name again replaces its value where it stands.
C4_ModifiersFirstSetOrder ==
  \A n \in Nodes :
    Returned(n) /\ log[n].orderedMode =>
      /\ "modifiers" \in DOMAIN ret.val
      /\ Len(ret.val.modifiers) = Len(log[n].first)
      /\ \A i \in DOMAIN log[n].first :
           /\ DOMAIN ret.val.modifiers[i] = {log[n].first[i]}
           /\ ret.val.modifiers[i][log[n].first[i]] = log[n].last[log[n].first[i]]

\* opacity, then blur, then opacity again: opacity still comes first.
C4_Witness ==
  /\ Returned("c") /\ log["c"].orderedMode
  /\ log["c"].first = <<"opacity", "blur">>
  /\ ret.val.modifiers = <<[opacity |-> Prim("3")], [blur |-> Prim("0.5")]>>

\* C5: a definition has a views field exactly if the widget's children array
\* is not empty when it is serialized, and views is then never empty; with one
\* child views has one element.
C5_ViewsIffChildren ==
  \A n \in Nodes :
    Returned(n) =>
      /\ ("views" \in DOMAIN ret.val) <=> (log[n].kids # <<>>)
      /\ "views" \in DOMAIN ret.val => Len(ret.val.views) > 0
      /\ Len(log[n].kids) = 1 =>
           "views" \in DOMAIN ret.val /\ Len(ret.val.views) = 1

\* The children of p1 were replaced by an empty array.
C5_Witness ==
  /\ Returned("p1")
  /\ log["p1"].had
  /\ log["p1"].kids = <<>>
  /\ "views" \notin DOMAIN ret.val

Others(m, name) == SelectSeq(m, LAMBDA e : e[1] # name)

\* Definitions d1 and d2 of one widget differ at most in the entry for name.
DiffersOnlyIn(d1, d2, name) ==
  /\ d1.type = d2.type
  /\ DOMAIN d1 = DOMAIN d2
  /\ "views" \in DOMAIN d1 => d1.views = d2.views
  /\ "props" \in DOMAIN d1 =>
       /\ DOMAIN d1.props \ {name} = DOMAIN d2.props \ {name}
       /\ \A k \in DOMAIN d1.props \ {name} : d1.props[k] = d2.props[k]
  /\ "modifiers" \in DOMAIN d1 =>
       SelectSeq(d1.modifiers, LAMBDA r : DOMAIN r # {name}) =
       SelectSeq(d2.modifiers, LAMBDA r : DOMAIN r # {name})

AttributeSetters ==
  {"setProps", "opacity", "frame", "border", "clipped", "layoutPriority"}

\* C7: a definition is computed from the attributes and children of the moment
\* and reading it changes neither: what the getter returns is what reading it
\* once more returns; and a definition read before setProps(name, v) and one
\* read after it differ only in the entry for name.
C7_NeverStale ==
  [][\A n \in Nodes :
       /\ ret'.op = "definition" /\ ret'.self = n =>
            /\ ret'.val = _getDefinition(n, 1)
            /\ ret'.val = _getDefinition(n, 1)'
       /\ ( /\ Returned(n)
            /\ ret'.op = "setProps" /\ ret'.self = n
            /\ _getDefinition(n, 1)' # RangeError ) =>
            /\ DiffersOnlyIn(ret.val, _getDefinition(n, 1)', ret'.name)
            /\ _getDefinition(n, 1)' = Expected(n)'
     ]_vars

\* opacity of the parent p1 has just been set again, to another value, with
\* blur set and a child in place: its definition now differs from the one read
\* before the call in the opacity entry alone.
C7_Witness ==
  /\ ret.op = "setProps" /\ ret.self = "p1" /\ ret.name = "opacity"
  /\ log["p1"].first = <<"blur", "opacity">>
  /\ log["p1"].last["opacity"] = Prim("3")
  /\ log["p1"].kids = <<WidgetRef("c")>>

\* C8 as claimed: the getter returns a definition whatever children arrays
\* were assigned.
C8_AlwaysReturns == ret.op = "definition" => ret.val # RangeError

\* C8, amended: the getter returns a definition exactly if no widget at or
\* below the one serialized is its own descendant; a widget that occurs
\* several times below it does no harm. Otherwise the recursion does not end
\* and the call stack overflows.
C8_ReturnsUnlessCycle ==
  \A n \in Nodes :
    ret.op = "definition" /\ ret.self = n =>
      (ret.val = RangeError <=> InCycle(n))

\* The same child twice under one parent.
C8_Witness ==
  /\ Returned("p1")
  /\ log["p1"].kids = <<WidgetRef("c"), WidgetRef("c")>>
  /\ Len(ret.val.views) = 2

\* C9: children are held by reference. Whenever a definition of a parent is
\* read, the element at the place of each child widget is that child's
\* definition as its attributes and children stand at that moment, also when
\* the child is shared with another parent and was changed after both took it;
\* and no call on a widget changes a definition the caller already holds.
C9_SharedChildByReference ==
  /\ [](\A p \in Nodes :
          Returned(p) =>
            \A i \in DOMAIN log[p].kids :
              IsNode(log[p].kids[i]) =>
                /\ "views" \in DOMAIN ret.val
                /\ i \in DOMAIN ret.val.views
                /\ ret.val.views[i] = Expected(log[p].kids[i].node))
  /\ [][ret'.op \in AttributeSetters \cup {"setViews"} => held' = held]_vars

\* c is a child of p1 and of p2 and its opacity was set to 3 after both took
\* it: the definition of p1 the caller holds from before still shows 0.5, the
\* definition of p2 read now shows 3.
C9_Witness ==
  /\ ~log["c"].orderedMode
  /\ log["p1"].kids = <<WidgetRef("p2"), WidgetRef("c")>>
  /\ log["p2"].kids = <<WidgetRef("c")>>
  /\ log["p1"].touched /\ log["p2"].touched
  /\ log["c"].last = [opacity |-> Prim("3")]
  /\ held # Undefined
  /\ held.type = "zstack"
  /\ "views" \in DOMAIN held /\ Len(held.views) = 2
  /\ held.views[2] = [type |-> "text", props |-> [opacity |-> Prim("0.5")]]
  /\ Returned("p2")
  /\ ret.val.views[1] = [type |-> "text", props |-> [opacity |-> Prim("3")]]

\* C2: every attribute setter, and setViews, returns the widget it was called
\* on.
C2_SettersReturnThis ==
  ret.op \in AttributeSetters \cup {"setViews"} => ret.val = WidgetRef(ret.self)

\* C10: a call of an attribute setter leaves the widget's type, ordered and
\* children and every attribute entry but the one it names as they were, and
\* leaves every other widget alone; reading a definition changes nothing; so
\* type and ordered stay as constructed and definition.type is that type.
C10_SettersTouchOneEntry ==
  [][\A n \in Nodes :
       /\ type'[n] = log'[n].kind
       /\ ordered'[n] = log'[n].orderedMode
       /\ ret'.op \in AttributeSetters /\ ret'.self = n =>
            /\ _views' = _views
            /\ \A m \in Nodes \ {n} : _props'[m] = _props[m]
            /\ Others(_props'[n], ret'.name) = Others(_props[n], ret'.name)
       /\ ret'.op = "definition" /\ ret'.self = n =>
            /\ _props' = _props /\ _views' = _views
            /\ ret'.val # RangeError => ret'.val.type = log[n].kind
     ]_vars

\* setProps("type", "zstack") has just been called on the Text widget c, which
\* has children and three other attributes: it still is a "text".
C10_Witness ==
  /\ ret.op = "setProps" /\ ret.self = "c" /\ ret.name = "type"
  /\ type["c"] = "text"
  /\ Len(_views["c"]) = 1
  /\ Len(_props["c"]) = 4
  /\ MapHas(_props["c"], "ordered") /\ MapHas(_props["c"], "clipped")
  /\ MapHas(_props["c"], "frame")

====
